---- MODULE Spec2Model ----
(***************************************************************************)
(* A state-machine model of SimCSE/train.py: the command-line parse, main, *)
(* the training loop of train and the evaluation loop of evaluation.       *)
(* Tensors are sequences of symbolic elements, so that reshapes and        *)
(* concatenations can be followed element by element; the network's        *)
(* numeric results (loss, embeddings, the Spearman coefficient) belong to  *)
(* the framework and are symbolic or nondeterministic.                     *)
(***************************************************************************)
EXTENDS Integers, Sequences, FiniteSets, TLC

\* ------------------------------------------------------------- bounds
\* number of examples of the training file
NTrain == 3
\* number of examples of the held-out file
NDev == 3
\* largest batch size a caller of main passes in args.batch_size
MaxBatch == 2
\* correlation coefficients are the multiples of 1/CorrScale in [-1, 1]
CorrScale == 1
\* max_length: tokens per sentence
SeqLen == 2

\* ------------------------------------------------- program constants
\* parser default of --batch_size
DefaultBatchSize == 4
\* train: best = 0
InitialBest == 0
\* train: if batch_idx % 1 == 0
EvalEveryMut == 1 + 1
EvalEvery == 1
\* each training sample holds two views of its sentence: view(real_batch_num * 2, -1)
Views == 2

Absent == "<absent>"
DefaultDevice == "cpu"
DefaultPooler == "first-last-avg"
DefaultUnSupervise == FALSE

\* parser: choices of --pooler
PoolerChoices == {"cls", "pooler", "last-avg", "first-last-avg"}
\* main: assert args.pooler in [...]
AssertPoolersMut == {"cls", "pooler", "last-avg", "first-last-avg", "max"}
AssertPoolers == {"cls", "pooler", "last-avg", "first-last-avg"}

\* values tried for the flags
DeviceInputs == {"cpu", "gpu"}
UnSuperviseInputs == {"True", "False", ""}
PoolerInputs == PoolerChoices \cup {"max"}

\* bool(s) of a Python string, the conversion type=bool applies to the flag's text
PyBool(s) == s # ""

\* torch.device("cuda:0" if torch.cuda.is_available() else "cpu")
PickDevice(cudaAvailable) == IF cudaAvailable THEN "cuda:0" ELSE "cpu"

NoArgv == [given |-> FALSE]
NoArgs == [set |-> FALSE]
NoLoader == [built |-> FALSE]
NoModel == [constructed |-> FALSE]
NoBatch == [kind |-> "none"]
NoInputs == [set |-> FALSE]
NoFile == [exists |-> FALSE, weights |-> 0]

VARIABLES
  pc,            \* position of the single thread of control
  cuda,          \* torch.cuda.is_available()
  argv,          \* the flags given on the command line
  args,          \* the argparse namespace main works on
  train_dl,      \* main: train_dataloader
  dev_dl,        \* main: test_dataloader (train's dev_dl)
  model,         \* the SimcseModel: pooling, device, mode, weights version
  optimizer,     \* whether the AdamW optimizer exists
  checkpoint,    \* the file at save_path
  best,          \* train: best (in units of 1/CorrScale)
  batch_idx,     \* train: batch_idx
  trainRemaining,\* samples the shuffled training iterator has not yielded yet
  source,        \* train: the batch the iterator yielded
  inputs,        \* train: input_ids, attention_mask, token_type_ids after view/to
  loss,          \* train: whether loss holds the current batch's loss
  grad,          \* gradient buffers: "none", "zero", "fresh"
  corrcoef,      \* train: corrcoef
  lastLog,       \* the last message handed to logger.info
  devRemaining,  \* examples the shuffled dev iterator has not yielded yet
  sim_tensor,    \* evaluation: sim_tensor
  label_array,   \* evaluation: label_array
  evalWeights,   \* weights version the running evaluation sees
  evalCalls,     \* history: calls of evaluation
  spearmanCalls, \* history: calls of spearmanr
  spearmanN,     \* history: lengths of the two arrays of the last spearmanr call
  lastForward,   \* history: the last forward pass and the mode it ran in
  trace,         \* history: events of the current training step
  prevTrace,     \* history: events of the previous training step
  returned       \* history: coefficients evaluation has returned

vars == <<pc, cuda, argv, args, train_dl, dev_dl, model, optimizer, checkpoint,
          best, batch_idx, trainRemaining, source, inputs, loss, grad, corrcoef,
          lastLog, devRemaining, sim_tensor, label_array, evalWeights, evalCalls,
          spearmanCalls, spearmanN, lastForward, trace, prevTrace, returned>>

mainVars == <<train_dl, dev_dl, model, optimizer>>
trainVars == <<best, batch_idx, trainRemaining, source, inputs, loss, grad,
               corrcoef, lastLog, checkpoint>>
evalVars == <<devRemaining, sim_tensor, label_array, evalWeights, evalCalls,
              spearmanCalls, spearmanN>>
histVars == <<lastForward, trace, prevTrace, returned>>

Init ==
  /\ pc = "start"
  /\ cuda \in BOOLEAN
  /\ argv = NoArgv
  /\ args = NoArgs
  /\ train_dl = NoLoader
  /\ dev_dl = NoLoader
  /\ model = NoModel
  /\ optimizer = FALSE
  /\ checkpoint = NoFile
  /\ best = 0
  /\ batch_idx = 0
  /\ trainRemaining = {}
  /\ source = NoBatch
  /\ inputs = NoInputs
  /\ loss = FALSE
  /\ grad = "none"
  /\ corrcoef = 0
  /\ lastLog = ""
  /\ devRemaining = {}
  /\ sim_tensor = <<>>
  /\ label_array = <<>>
  /\ evalWeights = 0
  /\ evalCalls = 0
  /\ spearmanCalls = 0
  /\ spearmanN = <<0, 0>>
  /\ lastForward = [pass |-> "none", mode |-> "none"]
  /\ trace = <<>>
  /\ prevTrace = <<>>
  /\ returned = {}

\* ------------------------------------------------------ __main__, main

\* parser.parse_args(): a flag's text goes through its type, a default is kept as it is
\* (the flags modelled are --device, --un_supervise and --pooler; the others keep
\* their defaults)
Namespace(a) ==
  [set |-> TRUE,
   device |-> IF a.device = Absent THEN DefaultDevice ELSE a.device,
   un_supervise |-> IF a.un_supervise = Absent THEN DefaultUnSupervise
                    ELSE PyBool(a.un_supervise),
   batch_size |-> DefaultBatchSize,
   pooler |-> IF a.pooler = Absent THEN DefaultPooler ELSE a.pooler]

\* python train.py [--device d] [--un_supervise u] [--pooler p]
ParseArgs ==
  /\ pc = "start"
  /\ \E d \in DeviceInputs \cup {Absent}, u \in UnSuperviseInputs \cup {Absent},
        p \in PoolerInputs \cup {Absent} :
       LET a == [given |-> TRUE, device |-> d, un_supervise |-> u, pooler |-> p]
       IN /\ argv' = a
          /\ IF p = Absent \/ p \in PoolerChoices
             THEN args' = Namespace(a) /\ pc' = "main"
             ELSE args' = args /\ pc' = "SystemExit"
  /\ UNCHANGED <<cuda, mainVars, trainVars, evalVars, histVars>>

\* main(args) called by an importer of the module with a namespace of its own
CallMain ==
  /\ pc = "start"
  /\ \E d \in DeviceInputs, u \in BOOLEAN, p \in PoolerInputs, b \in 1..MaxBatch :
       args' = [set |-> TRUE, device |-> d, un_supervise |-> u, batch_size |-> b,
                pooler |-> p]
  /\ pc' = "main"
  /\ UNCHANGED <<cuda, argv, mainVars, trainVars, evalVars, histVars>>

MainDevice ==
  /\ pc = "main"
  /\ args' = [args EXCEPT !.device = PickDevice(cuda)]
  /\ pc' = "main_data"
  /\ UNCHANGED <<cuda, argv, mainVars, trainVars, evalVars, histVars>>

\* the training set main builds for a value of args.un_supervise
TrainSet(un_supervise) ==
  IF un_supervise
  THEN [loader |-> "load_sts_data_unsup", file |-> "cnsd-sts-train_unsup.txt",
        dataset |-> "TrainDataset"]
  ELSE [loader |-> "load_sts_data", file |-> "cnsd-sts-train.txt",
        dataset |-> "TestDataset"]

MainData ==
  /\ pc = "main_data"
  /\ LET ts == TrainSet(args.un_supervise)
     IN train_dl' = [built |-> TRUE, loader |-> ts.loader, file |-> ts.file,
                     dataset |-> ts.dataset, size |-> NTrain,
                     batch_size |-> args.batch_size]
  /\ dev_dl' = [built |-> TRUE, loader |-> "load_sts_data",
                file |-> "cnsd-sts-test.txt", dataset |-> "TestDataset",
                size |-> NDev, batch_size |-> args.batch_size]
  /\ pc' = "main_assert"
  /\ UNCHANGED <<cuda, argv, args, model, optimizer, trainVars, evalVars, histVars>>

MainAssertPass ==
  /\ pc = "main_assert"
  /\ args.pooler \in AssertPoolers
  /\ pc' = "main_model"
  /\ UNCHANGED <<cuda, argv, args, mainVars, trainVars, evalVars, histVars>>

MainAssertFail ==
  /\ pc = "main_assert"
  /\ args.pooler \notin AssertPoolers
  /\ pc' = "AssertionError"
  /\ UNCHANGED <<cuda, argv, args, mainVars, trainVars, evalVars, histVars>>

\* a module is constructed in training mode
MainModel ==
  /\ pc = "main_model"
  /\ model' = [constructed |-> TRUE, pooling |-> args.pooler, device |-> args.device,
               mode |-> "train", weights |-> 0]
  /\ optimizer' = TRUE
  /\ pc' = "train"
  /\ UNCHANGED <<cuda, argv, args, train_dl, dev_dl, trainVars, evalVars, histVars>>

\* ------------------------------------------------------------ tensors

Fields == {"input_ids", "attention_mask", "token_type_ids"}

\* sequences of k distinct elements of S: the batches a shuffling loader can yield
Arrangements(S, k) ==
  {s \in [1..k -> S] : \A i, j \in 1..k : i # j => s[i] # s[j]}

Min(a, b) == IF a < b THEN a ELSE b

\* field f of sample s of the unsupervised set: a [Views, SeqLen] tensor whose
\* element <<f, s, v, k>> is token k of view v
Item(f, s) == [v \in 1..Views |-> [k \in 1..SeqLen |-> <<f, s, v, k>>]]

\* the gold label of example e
Label(e) == <<"label", e>>

\* the batch the DataLoader's collate makes of the examples ids: TrainDataset
\* items are tokenizer mappings, TestDataset items are (source, target, label)
Collate(dataset, ids) ==
  IF dataset = "TrainDataset"
  THEN [kind |-> "mapping",
        input_ids |-> [i \in 1..Len(ids) |-> Item("input_ids", ids[i])],
        attention_mask |-> [i \in 1..Len(ids) |-> Item("attention_mask", ids[i])],
        token_type_ids |-> [i \in 1..Len(ids) |-> Item("token_type_ids", ids[i])]]
  ELSE [kind |-> "triple",
        source |-> [i \in 1..Len(ids) |-> <<"source", ids[i]>>],
        target |-> [i \in 1..Len(ids) |-> <<"target", ids[i]>>],
        label |-> [i \in 1..Len(ids) |-> Label(ids[i])]]

\* the elements of a contiguous [n, v, l] tensor in storage (row-major) order
Flat(t) ==
  LET v == Len(t[1])
      l == Len(t[1][1])
  IN [x \in 1..(Len(t) * v * l) |->
        t[((x - 1) \div (v * l)) + 1][(((x - 1) \div l) % v) + 1][((x - 1) % l) + 1]]

\* a reshape that puts all first views before all second views
ViewMut(t, rows) ==
  [r \in 1..rows |-> t[((r - 1) % Len(t)) + 1][((r - 1) \div Len(t)) + 1]]

\* t.view(rows, -1): the same storage cut into rows of equal length
View(t, rows) ==
  LET flat == Flat(t)
      cols == Len(flat) \div rows
  IN [r \in 1..rows |-> [c \in 1..cols |-> flat[(r - 1) * cols + c]]]

\* model.train(), model.eval()
ModelTrainMut(m) == m
ModelTrain(m) == [m EXCEPT !.mode = "train"]
ModelEval(m) == [m EXCEPT !.mode = "eval"]

\* the commented-out torch.save(model.state_dict(), save_path)
TorchSaveMut(file, m) == [exists |-> TRUE, weights |-> m.weights]
TorchSave(file, m) == file

\* torch.cat((sim_tensor, sim), dim=0) and np.append(label_array, np.array(label))
TorchCatMut(acc, new) == new \o acc
TorchCat(acc, new) == acc \o new
NpAppend(acc, new) == acc \o new

\* the values spearmanr(...).correlation can take, in units of 1/CorrScale
CorrValues == (0 - CorrScale)..CorrScale

\* -------------------------------------------------------------- train

TrainInit ==
  /\ pc = "train"
  /\ model' = ModelTrain(model)
  /\ best' = InitialBest
  /\ batch_idx' = 0
  /\ trainRemaining' = 1..train_dl.size
  /\ pc' = "fetch"
  /\ UNCHANGED <<cuda, argv, args, train_dl, dev_dl, optimizer, source, inputs, loss,
                 grad, corrcoef, lastLog, checkpoint, evalVars, histVars>>

\* for batch_idx, source in enumerate(train_dl, start=1): the next batch
Fetch ==
  /\ pc = "fetch"
  /\ trainRemaining # {}
  /\ \E ids \in Arrangements(trainRemaining,
                             Min(train_dl.batch_size, Cardinality(trainRemaining))) :
       /\ source' = Collate(train_dl.dataset, ids)
       /\ trainRemaining' = trainRemaining \ {ids[i] : i \in 1..Len(ids)}
  /\ batch_idx' = batch_idx + 1
  /\ inputs' = NoInputs
  /\ loss' = FALSE
  /\ prevTrace' = trace
  /\ trace' = <<>>
  /\ pc' = "reshape"
  /\ UNCHANGED <<cuda, argv, args, mainVars, best, grad, corrcoef, lastLog,
                 checkpoint, evalVars, lastForward, returned>>

\* the loader is exhausted: train returns
TrainEnd ==
  /\ pc = "fetch"
  /\ trainRemaining = {}
  /\ prevTrace' = trace
  /\ trace' = <<>>
  /\ pc' = "done"
  /\ UNCHANGED <<cuda, argv, args, mainVars, trainVars, evalVars, lastForward,
                 returned>>

\* source.get('input_ids').shape[0], the three .view(real_batch_num * 2, -1).to(device)
Reshape ==
  /\ pc = "reshape"
  /\ source.kind = "mapping"
  /\ LET real_batch_num == Len(source.input_ids)
     IN inputs' = [set |-> TRUE,
                   device |-> args.device,
                   input_ids |-> View(source.input_ids, real_batch_num * Views),
                   attention_mask |-> View(source.attention_mask, real_batch_num * Views),
                   token_type_ids |-> View(source.token_type_ids, real_batch_num * Views)]
  /\ pc' = "forward"
  /\ UNCHANGED <<cuda, argv, args, mainVars, best, batch_idx, trainRemaining, source,
                 loss, grad, corrcoef, lastLog, checkpoint, evalVars, histVars>>

\* a (source, target, label) batch is a list: it has no get
ReshapeFail ==
  /\ pc = "reshape"
  /\ source.kind # "mapping"
  /\ pc' = "AttributeError"
  /\ UNCHANGED <<cuda, argv, args, mainVars, trainVars, evalVars, histVars>>

Forward ==
  /\ pc = "forward"
  /\ lastForward' = [pass |-> "train", mode |-> model.mode]
  /\ trace' = Append(trace, "forward")
  /\ pc' = "loss"
  /\ UNCHANGED <<cuda, argv, args, mainVars, trainVars, evalVars, prevTrace, returned>>

Loss ==
  /\ pc = "loss"
  /\ loss' = TRUE
  /\ trace' = Append(trace, "loss")
  /\ pc' = "zero_grad"
  /\ UNCHANGED <<cuda, argv, args, mainVars, best, batch_idx, trainRemaining, source,
                 inputs, grad, corrcoef, lastLog, checkpoint, evalVars, lastForward,
                 prevTrace, returned>>

ZeroGrad ==
  /\ pc = "zero_grad"
  /\ grad' = "zero"
  /\ trace' = Append(trace, "zero_grad")
  /\ pc' = "backward"
  /\ UNCHANGED <<cuda, argv, args, mainVars, best, batch_idx, trainRemaining, source,
                 inputs, loss, corrcoef, lastLog, checkpoint, evalVars, lastForward,
                 prevTrace, returned>>

Backward ==
  /\ pc = "backward"
  /\ grad' = "fresh"
  /\ trace' = Append(trace, "backward")
  /\ pc' = "step"
  /\ UNCHANGED <<cuda, argv, args, mainVars, best, batch_idx, trainRemaining, source,
                 inputs, loss, corrcoef, lastLog, checkpoint, evalVars, lastForward,
                 prevTrace, returned>>

OptimizerStep ==
  /\ pc = "step"
  /\ model' = [model EXCEPT !.weights = @ + 1]
  /\ trace' = Append(trace, "step")
  /\ pc' = "eval_gate"
  /\ UNCHANGED <<cuda, argv, args, train_dl, dev_dl, optimizer, trainVars, evalVars,
                 lastForward, prevTrace, returned>>

\* if batch_idx % 1 == 0: logger.info(loss), then evaluation
EvalGate ==
  /\ pc = "eval_gate"
  /\ IF batch_idx % EvalEvery = 0
     THEN lastLog' = "loss" /\ pc' = "evaluation"
     ELSE lastLog' = lastLog /\ pc' = "fetch"
  /\ UNCHANGED <<cuda, argv, args, mainVars, best, batch_idx, trainRemaining, source,
                 inputs, loss, grad, corrcoef, checkpoint, evalVars, histVars>>

\* --------------------------------------------------------- evaluation

EvalInit ==
  /\ pc = "evaluation"
  /\ model' = ModelEval(model)
  /\ sim_tensor' = <<>>
  /\ label_array' = <<>>
  /\ devRemaining' = 1..dev_dl.size
  /\ evalWeights' = model.weights
  /\ evalCalls' = evalCalls + 1
  /\ trace' = Append(trace, "evaluation")
  /\ pc' = "eval_loop"
  /\ UNCHANGED <<cuda, argv, args, train_dl, dev_dl, optimizer, trainVars,
                 spearmanCalls, spearmanN, lastForward, prevTrace, returned>>

\* one pass of: for source, target, label in dataloader
EvalBatch ==
  /\ pc = "eval_loop"
  /\ devRemaining # {}
  /\ \E ids \in Arrangements(devRemaining,
                             Min(dev_dl.batch_size, Cardinality(devRemaining))) :
       LET b == Collate(dev_dl.dataset, ids)
           sim == [i \in 1..Len(ids) |-> [source |-> b.source[i], target |-> b.target[i]]]
       IN /\ sim_tensor' = TorchCat(sim_tensor, sim)
          /\ label_array' = NpAppend(label_array, b.label)
          /\ devRemaining' = devRemaining \ {ids[i] : i \in 1..Len(ids)}
  /\ lastForward' = [pass |-> "eval", mode |-> model.mode]
  /\ UNCHANGED <<pc, cuda, argv, args, mainVars, trainVars, evalWeights, evalCalls,
                 spearmanCalls, spearmanN, trace, prevTrace, returned>>

\* return spearmanr(label_array, sim_tensor.cpu().numpy()).correlation
EvalReturn ==
  /\ pc = "eval_loop"
  /\ devRemaining = {}
  /\ \E c \in CorrValues :
       /\ corrcoef' = c
       /\ returned' = returned \cup {c}
  /\ spearmanCalls' = spearmanCalls + 1
  /\ spearmanN' = <<Len(label_array), Len(sim_tensor)>>
  /\ sim_tensor' = <<>>
  /\ label_array' = <<>>
  /\ pc' = "model_train"
  /\ UNCHANGED <<cuda, argv, args, mainVars, best, batch_idx, trainRemaining, source,
                 inputs, loss, grad, lastLog, checkpoint, devRemaining, evalWeights,
                 evalCalls, lastForward, trace, prevTrace>>

\* ------------------------------------------------- train, after evaluation

RestoreTrain ==
  /\ pc = "model_train"
  /\ model' = ModelTrain(model)
  /\ pc' = "update_best"
  /\ UNCHANGED <<cuda, argv, args, train_dl, dev_dl, optimizer, trainVars, evalVars,
                 histVars>>

\* if best < corrcoef: best = corrcoef; (torch.save); logger.info(... save model)
UpdateBest ==
  /\ pc = "update_best"
  /\ IF best < corrcoef
     THEN /\ best' = corrcoef
          /\ checkpoint' = TorchSave(checkpoint, model)
          /\ lastLog' = "higher corrcoef, save model"
     ELSE UNCHANGED <<best, checkpoint, lastLog>>
  /\ trace' = Append(trace, "update_best")
  /\ pc' = "fetch"
  /\ UNCHANGED <<cuda, argv, args, mainVars, batch_idx, trainRemaining, source, inputs,
                 loss, grad, corrcoef, evalVars, lastForward, prevTrace, returned>>

Next ==
  \/ ParseArgs
  \/ CallMain
  \/ MainDevice
  \/ MainData
  \/ MainAssertPass
  \/ MainAssertFail
  \/ MainModel
  \/ TrainInit
  \/ Fetch
  \/ TrainEnd
  \/ Reshape
  \/ ReshapeFail
  \/ Forward
  \/ Loss
  \/ ZeroGrad
  \/ Backward
  \/ OptimizerStep
  \/ EvalGate
  \/ EvalInit
  \/ EvalBatch
  \/ EvalReturn
  \/ RestoreTrain
  \/ UpdateBest

Spec == Init /\ [][Next]_vars

TypeOK ==
  /\ best \in CorrValues
  /\ corrcoef \in CorrValues
  /\ batch_idx \in 0..NTrain
  /\ returned \subseteq CorrValues

\* ------------------------------------------------------------- claims

Max(S) == CHOOSE x \in S : \A y \in S : y <= x

IsPrefix(s, t) == Len(s) <= Len(t) /\ \A i \in 1..Len(s) : s[i] = t[i]

\* positions of train between two evaluations
StepPositions == {"reshape", "forward", "loss", "zero_grad", "backward", "step",
                  "eval_gate"}

\* C1: after every training step, and when train has returned, best is the
\* highest coefficient evaluation has returned so far in the run.
C1_BestIsHighest ==
  (pc \in {"fetch", "done"} /\ returned # {}) => best = Max(returned)

\* C2: in either mode every batch the training loader yields is a mapping with
\* input_ids, attention_mask and token_type_ids, and train never fails to
\* unpack it.
C2_EveryBatchConsumable ==
  /\ source.kind # "none" => source.kind = "mapping"
  /\ pc # "AttributeError"

\* the order of one training step, as the claim C3 gives it
StepOrder == <<"forward", "loss", "zero_grad", "backward", "step", "evaluation",
               "update_best">>

\* C3: the events of a training step occur in the order forward, loss, gradient
\* reset, backward, optimizer step, evaluation, update of best, and a step that
\* is over has had all of them; the evaluation of step k is over (its
\* correlation computed) before step k+1 starts, and an evaluation runs on
\* weights that have received the optimizer step of its batch.
C3_StepOrder ==
  /\ IsPrefix(trace, StepOrder)
  /\ (pc = "fetch" /\ batch_idx >= 1) => trace = StepOrder
  /\ (pc \in StepPositions \cup {"evaluation", "eval_loop", "model_train", "update_best"}
        /\ batch_idx >= 2) => prevTrace = StepOrder
  /\ (pc = "done" /\ batch_idx >= 1) => prevTrace = StepOrder
  /\ pc \in StepPositions => (evalCalls = batch_idx - 1 /\ spearmanCalls = batch_idx - 1)
  /\ pc = "eval_loop" => (evalWeights = batch_idx /\ model.weights = batch_idx)

C3_Witness ==
  pc = "forward" /\ batch_idx = 2 /\ prevTrace = StepOrder

\* the set the claim C4 enumerates
EnumeratedPoolers == {"cls", "pooler", "last-avg", "first-last-avg"}

\* the pooling strategy the run was asked for
AskedPooler ==
  IF args.set THEN args.pooler
  ELSE IF argv.given THEN argv.pooler
  ELSE "first-last-avg"

\* C4: for a pooling value of the enumerated set main's assertion passes and
\* the model is constructed with that pooling; for a value outside it main gets
\* no further than the assertion: no model, no optimizer, no training step and
\* no evaluation.
C4_PoolerValidated ==
  /\ (args.set /\ args.pooler \in EnumeratedPoolers)
       => /\ pc # "AssertionError"
          /\ pc \notin {"main", "main_data", "main_assert", "main_model"}
               => (model.constructed /\ model.pooling = args.pooler /\ optimizer)
  /\ AskedPooler \notin EnumeratedPoolers
       => /\ pc \in {"start", "main", "main_data", "main_assert", "AssertionError",
                     "SystemExit"}
          /\ ~model.constructed
          /\ ~optimizer
          /\ batch_idx = 0
          /\ evalCalls = 0
          /\ lastForward.pass = "none"
  /\ pc = "AssertionError" => args.pooler \notin EnumeratedPoolers

C4_Witness ==
  pc = "AssertionError" /\ args.pooler = "max" /\ ~model.constructed /\ ~optimizer

\* whether the text given for --un_supervise denotes true
DenotesTrue(u) == u \in {"True", "true", "1"}

\* C5: run from the command line, main takes the unsupervised branch exactly
\* when the value given for --un_supervise denotes true, and the supervised
\* branch when the flag is omitted or its value denotes false.
C5_FlagIsToggle ==
  (argv.given /\ train_dl.built)
    => IF DenotesTrue(argv.un_supervise)
       THEN train_dl.loader = "load_sts_data_unsup" /\ train_dl.dataset = "TrainDataset"
       ELSE train_dl.loader = "load_sts_data" /\ train_dl.file = "cnsd-sts-train.txt"

\* the torch device a value of --device names
NamedDevice(d) == IF d = "gpu" THEN "cuda:0" ELSE "cpu"

\* C6: run from the command line, the model is placed on, and every training
\* batch is moved to, the device --device names (cpu when omitted).
C6_DeviceFromFlag ==
  argv.given
    => /\ model.constructed => model.device = NamedDevice(argv.device)
       /\ inputs.set => inputs.device = NamedDevice(argv.device)

\* C7: train never writes to save_path: the file there is what it was before
\* the run, also after a step that found a higher correlation and logged
\* "save model".
C7_NoCheckpointWrite ==
  checkpoint = NoFile

C7_Witness ==
  /\ lastLog = "higher corrcoef, save model"
  /\ best > InitialBest
  /\ model.weights >= 1
  /\ checkpoint = NoFile

\* C8: every training forward pass runs in training mode and every forward
\* pass of evaluation in evaluation mode; between evaluations the model is in
\* training mode, inside evaluation's loop in evaluation mode.
C8_ModeMatchesPass ==
  /\ lastForward.pass # "none" => lastForward.mode = lastForward.pass
  /\ pc \in StepPositions \cup {"fetch", "update_best"} => model.mode = "train"
  /\ pc = "eval_loop" => model.mode = "eval"

C8_Witness ==
  pc = "loss" /\ batch_idx = 2 /\ lastForward = [pass |-> "train", mode |-> "train"]

\* the examples whose similarity sim_tensor holds
SimExamples == {sim_tensor[i].source[2] : i \in 1..Len(sim_tensor)}

\* C9: during evaluation sim_tensor and label_array have the same length, the
\* i-th similarity and the i-th label are those of one sentence pair, each
\* example the loader has yielded has exactly one entry, so that after the last
\* (possibly partial) batch there is one entry per example; spearmanr is called
\* once per evaluation, on arrays of that full length.
C9_EvalAccumulation ==
  /\ Len(sim_tensor) = Len(label_array)
  /\ \A i \in 1..Len(sim_tensor) :
       \E e \in 1..NDev :
         /\ sim_tensor[i] = [source |-> <<"source", e>>, target |-> <<"target", e>>]
         /\ label_array[i] = <<"label", e>>
  /\ pc = "eval_loop"
       => /\ SimExamples = (1..NDev) \ devRemaining
          /\ Len(sim_tensor) = Cardinality(SimExamples)
  /\ spearmanCalls = evalCalls - (IF pc = "eval_loop" THEN 1 ELSE 0)
  /\ spearmanCalls >= 1 => spearmanN = <<NDev, NDev>>

C9_Witness ==
  /\ pc = "eval_loop"
  /\ devRemaining = {}
  /\ dev_dl.batch_size < NDev
  /\ NDev % dev_dl.batch_size # 0
  /\ Len(sim_tensor) = NDev

\* C10: after the reshape of a batch of n samples each of the three tensors has
\* 2n rows, rows 2i and 2i+1 (counted from 0) are the two views of sample i,
\* n is the size of the batch at hand, and row r of the three tensors is the
\* same view of the same sample.
C10_ReshapeInterleaves ==
  inputs.set =>
    LET n == Len(source.input_ids)
    IN /\ \A f \in Fields :
            /\ Len(inputs[f]) = Views * n
            /\ \A i \in 1..n, v \in 1..Views :
                 inputs[f][Views * (i - 1) + v] = source[f][i][v]
       /\ \A r \in 1..(Views * n), k \in 1..SeqLen :
            /\ inputs.input_ids[r][k][1] = "input_ids"
            /\ inputs.attention_mask[r][k]
                 = <<"attention_mask", inputs.input_ids[r][k][2],
                     inputs.input_ids[r][k][3], inputs.input_ids[r][k][4]>>
            /\ inputs.token_type_ids[r][k]
                 = <<"token_type_ids", inputs.input_ids[r][k][2],
                     inputs.input_ids[r][k][3], inputs.input_ids[r][k][4]>>

C10_Witness ==
  /\ inputs.set
  /\ Len(source.input_ids) >= 2
  /\ Len(source.input_ids) < train_dl.batch_size
  /\ Len(inputs.input_ids) = Views * Len(source.input_ids)

====
